---- MODULE Spec2Model ----
(***************************************************************************)
(* A model of the AI-response extractor (src/lib/ai.ts, parseAIResponse)   *)
(* and of the PDF report generator (src/app/jobs/[id]/page.tsx,            *)
(* generateAnalysisPDF).                                                   *)
(*                                                                         *)
(* A text is a sequence of one-character strings.  A JSON value is a       *)
(* record [t, n, s, kids] of one shape for every kind of value, so that    *)
(* any two values can be compared:                                         *)
(*   t = "num"    n is the number                                          *)
(*   t = "str"    s is the characters of the string                        *)
(*   t = "null" / "true" / "false"                                         *)
(*   t = "arr"    kids are the elements                                    *)
(*   t = "obj"    kids are the members, in insertion order                 *)
(*   t = "member" s is the key, kids = <<value>>                           *)
(***************************************************************************)
EXTENDS Integers, Sequences, FiniteSets, TLC

VARIABLES
    \* ---- parseAIResponse ----
    text,       \* the argument of parseAIResponse
    source,     \* how the input text was built: "raw", "object", "wrapped", "none"
    obj,        \* the object the text was built from ("object", "wrapped")
    xpc,        \* "ready" before the call, "done" after it, "idle" when unused
    outcome,    \* what the call produced: a returned value or a thrown error
    \* ---- generateAnalysisPDF ----
    pc,         \* position in generateAnalysisPDF
    y,          \* the vertical cursor (let y, line 1208)
    pagesLen,   \* pdf.internal.pages.length (slot 0 is unused by jsPDF)
    curPage,    \* the page jsPDF draws on
    breaks,     \* number of times addNewPageIfNeeded added a page
    drawn,      \* the blocks drawn by the latest step
    bare,       \* every analysis field read so far, jobSummary aside, was absent or empty
    extra,      \* a block other than header/candidate/job/Job Summary was drawn
    sumDrawn,   \* the Job Summary section (title and paragraph) was drawn
    totalPages, \* const totalPages (line 1445), 0 before it is computed
    footI,      \* the footer loop's i
    footers,    \* footers stamped so far
    titled,     \* the section whose title is drawn with no content under it yet ("": none)
    \* ---- the file name of the report (page.tsx line 1460) ----
    fname,      \* genome.person.name: [has |-> whether it is there, chars |-> its text]
    ftitle,     \* job.objective, in the same shape
    fpc,        \* "ready" before line 1460, "saved" or "threw" after it, "idle" when unused
    fileName,   \* const fileName, with the two parts it was put together from
    \* ---- POST /api/ai (src/app/api/ai/route.ts) ----
    aReq,       \* the request: whether its body is JSON, and the fields of the body
    aEnv,       \* process.env: the credential and GOOGLE_MODEL
    apc,        \* "ready", "generating" (awaiting generateText), "done", or "idle"
    aCall,      \* the arguments of the latest generateText call
    genCalls,   \* number of generateText calls made
    aThrown,    \* the value caught at line 49, if any
    aResp,      \* the response sent
    \* ---- POST /api/search (src/app/api/search/route.ts) ----
    sReq,       \* the request: the text of its body and its size query parameter
    spc,        \* "ready", "fetching" (awaiting the upstream), "done", or "idle"
    sCall,      \* the upstream request made: its size parameter and its body text
    sUp,        \* what the upstream did: answered (status, body text) or failed
    sResp,      \* the response sent
    \* ---- FitAnalysisDialog (page.tsx lines 1472-2043) and its parent ----
    isOpen,     \* the parent's isDialogOpen
    username,   \* the text of the username input
    step,       \* "input", "loading" or "result" ("idle" when unused)
    genome,     \* the profile state, null at first
    analysis,   \* the analysis state (a JSON value), null at first
    error,      \* the error state, null at first
    runs,       \* one record for every handleAnalyze call that went past line 1480
    last,       \* the handler or continuation that ran last, and for which run
    \* ---- TorreApiClient (src/lib/torre-api.ts) ----
    cpc,        \* "ready" when the client is in use, "idle" when unused
    calls,      \* one record for every method call: the method, its requests, its state
    \* ---- JobsPage (the jobs list page) ----
    jpc,        \* "mount" before the first effect, "ready" after it, "idle" when unused
    searchTerm, \* the keyword state
    size,       \* the page size state
    results,    \* the results state
    total,      \* the total state
    loading,    \* the loading state
    jobsError,  \* the error state of JobsPage
    searches,   \* one record for every searchJobs call
    \* ---- Home (src/app/page.tsx, the API tester) ----
    hpc,        \* "ready" when the page is in use, "idle" when unused
    searchResponse,  \* the response state of the search panel
    jobResponse,     \* the response state of the job details panel
    genomeResponse,  \* the response state of the genome panel
    inFlight,   \* the panels whose request is awaited
    acted       \* the panel of the handler or continuation that ran last ("none" at first)

xvars == <<text, source, obj, xpc, outcome>>
pvars == <<pc, y, pagesLen, curPage, breaks, drawn, bare,
           extra, sumDrawn, totalPages, footI, footers, titled>>
fvars == <<fname, ftitle, fpc, fileName>>
avars == <<aReq, aEnv, apc, aCall, genCalls, aThrown, aResp>>
svars == <<sReq, spc, sCall, sUp, sResp>>
dvars == <<isOpen, username, step, genome, analysis, error, runs, last>>
cvars == <<cpc, calls>>
jvars == <<jpc, searchTerm, size, results, total, loading, jobsError, searches>>
hvars == <<hpc, searchResponse, jobResponse, genomeResponse, inFlight, acted>>
nvars == <<fvars, avars, svars, dvars, cvars, jvars, hvars>>
vars == <<xvars, pvars, nvars>>

NoText == [has |-> FALSE, chars |-> <<>>]
NoFileName == [name |-> <<>>, title |-> <<>>, full |-> <<>>]

FileIdle == fname = NoText /\ ftitle = NoText /\ fpc = "idle" /\ fileName = NoFileName

NoResponse == [status |-> 0, error |-> <<>>, text |-> <<>>]
NoThrown == [kind |-> "none", message |-> <<>>]
NoAiRequest == [json |-> FALSE, prompt |-> NoText, systemPrompt |-> NoText, model |-> NoText]
NoAiEnv == [credential |-> "unset", model |-> NoText]
NoCall == [model |-> <<>>, system |-> NoText, prompt |-> <<>>]

AiIdle ==
    /\ aReq = NoAiRequest /\ aEnv = NoAiEnv /\ apc = "idle" /\ aCall = NoCall
    /\ genCalls = 0 /\ aThrown = NoThrown /\ aResp = NoResponse

NoSearchRequest == [body |-> <<>>, size |-> NoText]
NoSearchCall == [made |-> FALSE, size |-> <<>>, body |-> <<>>]
NoUpstream == [kind |-> "none", status |-> 0, body |-> <<>>, thrown |-> NoThrown]
NoSearchResponse == [status |-> 0, error |-> <<>>, hasData |-> FALSE, data |-> <<>>]

SearchIdle ==
    /\ sReq = NoSearchRequest /\ spc = "idle" /\ sCall = NoSearchCall
    /\ sUp = NoUpstream /\ sResp = NoSearchResponse

NoGenome == [has |-> FALSE, user |-> <<>>]
NoError == [has |-> FALSE, message |-> ""]
NoRun == [op |-> "none", run |-> 0]

DialogIdle ==
    /\ isOpen = FALSE /\ username = <<>> /\ step = "idle" /\ genome = NoGenome
    /\ analysis = [t |-> "null", n |-> 0, s |-> <<>>, kids |-> <<>>]
    /\ error = NoError /\ runs = <<>> /\ last = NoRun

ClientIdle == cpc = "idle" /\ calls = <<>>
JobsIdle ==
    /\ jpc = "idle" /\ searchTerm = "" /\ size = 0 /\ results = <<>> /\ total = 0
    /\ loading = FALSE /\ jobsError = NoError /\ searches = <<>>
NoApiResponse == [data |-> [t |-> "null", n |-> 0, s |-> <<>>, kids |-> <<>>],
                  status |-> 0, loading |-> FALSE, error |-> NoError]
HomeIdle ==
    /\ hpc = "idle" /\ searchResponse = NoApiResponse /\ jobResponse = NoApiResponse
    /\ genomeResponse = NoApiResponse /\ inFlight = {} /\ acted = "none"

\* the parts other than the named one are unused
IdleExcept(part) ==
    /\ part = "file" \/ FileIdle
    /\ part = "ai" \/ AiIdle
    /\ part = "search" \/ SearchIdle
    /\ part = "dialog" \/ DialogIdle
    /\ part = "client" \/ ClientIdle
    /\ part = "jobs" \/ JobsIdle
    /\ part = "home" \/ HomeIdle

\* the parts other than the named one keep their state
KeepExcept(part) ==
    /\ IF part = "file" THEN TRUE ELSE UNCHANGED fvars
    /\ IF part = "ai" THEN TRUE ELSE UNCHANGED avars
    /\ IF part = "search" THEN TRUE ELSE UNCHANGED svars
    /\ IF part = "dialog" THEN TRUE ELSE UNCHANGED dvars
    /\ IF part = "client" THEN TRUE ELSE UNCHANGED cvars
    /\ IF part = "jobs" THEN TRUE ELSE UNCHANGED jvars
    /\ IF part = "home" THEN TRUE ELSE UNCHANGED hvars

OtherIdle == IdleExcept("none")

(***************************************************************************)
(* Bounds of the model.                                                    *)
(***************************************************************************)
MaxLen == 4          \* longest raw text drawn from Chars
MaxMembers == 2      \* most members of an input object
MaxItems == 2        \* longest list of the analysis
ShortWidth == 40     \* rendered width of a short text: one line
MidWidth == 900      \* rendered width of a medium text: several lines
LongWidth == 6000    \* rendered width of a long text: most of a page, or more

(***************************************************************************)
(* JSON values.                                                            *)
(***************************************************************************)
JNum(n) == [t |-> "num", n |-> n, s |-> <<>>, kids |-> <<>>]
JStr(s) == [t |-> "str", n |-> 0, s |-> s, kids |-> <<>>]
JLit(name) == [t |-> name, n |-> 0, s |-> <<>>, kids |-> <<>>]
JArr(elems) == [t |-> "arr", n |-> 0, s |-> <<>>, kids |-> elems]
JObj(members) == [t |-> "obj", n |-> 0, s |-> <<>>, kids |-> members]
JMember(key, val) == [t |-> "member", n |-> 0, s |-> key, kids |-> <<val>>]
Undefined == JLit("undefined")

Quote == "\""
Whitespace == {" "}
Digits == {"0", "1", "2", "3", "4", "5", "6", "7", "8", "9"}
DigitValue(c) ==
    CASE c = "0" -> 0 [] c = "1" -> 1 [] c = "2" -> 2 [] c = "3" -> 3
      [] c = "4" -> 4 [] c = "5" -> 5 [] c = "6" -> 6 [] c = "7" -> 7
      [] c = "8" -> 8 [] OTHER -> 9
DigitChar(d) ==
    CASE d = 0 -> "0" [] d = 1 -> "1" [] d = 2 -> "2" [] d = 3 -> "3"
      [] d = 4 -> "4" [] d = 5 -> "5" [] d = 6 -> "6" [] d = 7 -> "7"
      [] d = 8 -> "8" [] OTHER -> "9"

(***************************************************************************)
(* JSON.parse, as a recursive-descent parser.  A parse step answers        *)
(* [ok, val, pos]: pos is the index after what was consumed.               *)
(***************************************************************************)
Fail == [ok |-> FALSE, val |-> Undefined, pos |-> 0]
Ok(v, p) == [ok |-> TRUE, val |-> v, pos |-> p]

RECURSIVE SkipWs(_, _)
SkipWs(s, i) ==
    IF i <= Len(s) /\ s[i] \in Whitespace THEN SkipWs(s, i + 1) ELSE i

RECURSIVE ScanDigits(_, _)
ScanDigits(s, i) ==
    IF i <= Len(s) /\ s[i] \in Digits THEN ScanDigits(s, i + 1) ELSE i

RECURSIVE DigitsValue(_, _, _, _)
DigitsValue(s, i, j, acc) ==
    IF i >= j THEN acc ELSE DigitsValue(s, i + 1, j, acc * 10 + DigitValue(s[i]))

\* number: 0 | [1-9][0-9]*   (no sign, fraction or exponent in the alphabet)
ParseNumber(s, i) ==
    LET j == ScanDigits(s, i) IN
    IF s[i] = "0" THEN Ok(JNum(0), i + 1)
    ELSE Ok(JNum(DigitsValue(s, i, j, 0)), j)

RECURSIVE ScanString(_, _)
ScanString(s, i) ==
    IF i > Len(s) THEN 0
    ELSE IF s[i] = Quote THEN i ELSE ScanString(s, i + 1)

\* string: the characters up to the next quote (no escapes in the alphabet)
ParseString(s, i) ==
    LET j == ScanString(s, i + 1) IN
    IF j = 0 THEN Fail ELSE Ok(JStr(SubSeq(s, i + 1, j - 1)), j + 1)

ParseLiteral(s, i, word, name) ==
    IF i + Len(word) - 1 <= Len(s) /\ SubSeq(s, i, i + Len(word) - 1) = word
    THEN Ok(JLit(name), i + Len(word))
    ELSE Fail

\* a repeated key keeps its first position and takes the last value
RECURSIVE SetMember(_, _, _)
SetMember(members, key, val) ==
    IF members = <<>> THEN <<JMember(key, val)>>
    ELSE IF Head(members).s = key THEN <<JMember(key, val)>> \o Tail(members)
    ELSE <<Head(members)>> \o SetMember(Tail(members), key, val)

RECURSIVE ParseValue(_, _)
RECURSIVE ParseMembers(_, _, _)
RECURSIVE ParseElements(_, _, _)

\* s[i] is the first character of a member; acc holds the members before it
ParseMembers(s, i, acc) ==
    IF i > Len(s) \/ s[i] # Quote THEN Fail
    ELSE LET k == ParseString(s, i) IN
    IF ~k.ok THEN Fail
    ELSE LET c == SkipWs(s, k.pos) IN
    IF c > Len(s) \/ s[c] # ":" THEN Fail
    ELSE LET v == ParseValue(s, SkipWs(s, c + 1)) IN
    IF ~v.ok THEN Fail
    ELSE LET e == SkipWs(s, v.pos)
             members == SetMember(acc, k.val.s, v.val) IN
    IF e > Len(s) THEN Fail
    ELSE IF s[e] = "}" THEN Ok(JObj(members), e + 1)
    ELSE IF s[e] = "," THEN ParseMembers(s, SkipWs(s, e + 1), members)
    ELSE Fail

ParseElements(s, i, acc) ==
    LET v == ParseValue(s, i) IN
    IF ~v.ok THEN Fail
    ELSE LET e == SkipWs(s, v.pos)
             elems == Append(acc, v.val) IN
    IF e > Len(s) THEN Fail
    ELSE IF s[e] = "]" THEN Ok(JArr(elems), e + 1)
    ELSE IF s[e] = "," THEN ParseElements(s, SkipWs(s, e + 1), elems)
    ELSE Fail

ParseValue(s, i) ==
    IF i > Len(s) THEN Fail
    ELSE IF s[i] = "{" THEN
        LET j == SkipWs(s, i + 1) IN
        IF j <= Len(s) /\ s[j] = "}" THEN Ok(JObj(<<>>), j + 1)
        ELSE ParseMembers(s, j, <<>>)
    ELSE IF s[i] = "[" THEN
        LET j == SkipWs(s, i + 1) IN
        IF j <= Len(s) /\ s[j] = "]" THEN Ok(JArr(<<>>), j + 1)
        ELSE ParseElements(s, j, <<>>)
    ELSE IF s[i] = Quote THEN ParseString(s, i)
    ELSE IF s[i] \in Digits THEN ParseNumber(s, i)
    ELSE IF s[i] = "n" THEN ParseLiteral(s, i, <<"n", "u", "l", "l">>, "null")
    ELSE IF s[i] = "t" THEN ParseLiteral(s, i, <<"t", "r", "u", "e">>, "true")
    ELSE IF s[i] = "f" THEN ParseLiteral(s, i, <<"f", "a", "l", "s", "e">>, "false")
    ELSE Fail

\* JSON.parse(s): one value, surrounded by optional whitespace, and nothing else
JSONParse(s) ==
    LET v == ParseValue(s, SkipWs(s, 1)) IN
    IF v.ok /\ SkipWs(s, v.pos) = Len(s) + 1 THEN v ELSE Fail

(***************************************************************************)
(* JSON.stringify, without indentation.                                    *)
(***************************************************************************)
RECURSIVE NumberText(_)
NumberText(n) ==
    IF n < 10 THEN <<DigitChar(n)>>
    ELSE NumberText(n \div 10) \o <<DigitChar(n % 10)>>

RECURSIVE Stringify(_)
RECURSIVE StringifyList(_)

StringifyList(kids) ==
    IF kids = <<>> THEN <<>>
    ELSE IF Len(kids) = 1 THEN Stringify(kids[1])
    ELSE Stringify(kids[1]) \o <<",">> \o StringifyList(Tail(kids))

Stringify(v) ==
    CASE v.t = "num" -> NumberText(v.n)
      [] v.t = "str" -> <<Quote>> \o v.s \o <<Quote>>
      [] v.t = "null" -> <<"n", "u", "l", "l">>
      [] v.t = "true" -> <<"t", "r", "u", "e">>
      [] v.t = "false" -> <<"f", "a", "l", "s", "e">>
      [] v.t = "arr" -> <<"[">> \o StringifyList(v.kids) \o <<"]">>
      [] v.t = "obj" -> <<"{">> \o StringifyList(v.kids) \o <<"}">>
      [] v.t = "member" -> <<Quote>> \o v.s \o <<Quote, ":">> \o Stringify(v.kids[1])
      [] OTHER -> <<>>

(***************************************************************************)
(* text.match(/\{[\s\S]*\}/): the leftmost match starts at the first "{"   *)
(* that has a "}" after it, and the greedy star runs to the last "}".      *)
(***************************************************************************)
RECURSIVE FirstIndex(_, _, _)
FirstIndex(s, c, i) ==
    IF i > Len(s) THEN 0 ELSE IF s[i] = c THEN i ELSE FirstIndex(s, c, i + 1)

RECURSIVE LastIndex(_, _, _)
LastIndex(s, c, i) ==
    IF i < 1 THEN 0 ELSE IF s[i] = c THEN i ELSE LastIndex(s, c, i - 1)

NoMatch == [found |-> FALSE, span |-> <<>>]

LazyJsonMatch(s) ==
    LET a == FirstIndex(s, "{", 1)
        b == IF a = 0 THEN 0 ELSE FirstIndex(s, "}", a + 1) IN
    IF a = 0 \/ b = 0 THEN NoMatch
    ELSE [found |-> TRUE, span |-> SubSeq(s, a, b)]

JsonMatch(s) ==
    LET a == FirstIndex(s, "{", 1)
        b == LastIndex(s, "}", Len(s)) IN
    IF a = 0 \/ b < a THEN NoMatch
    ELSE [found |-> TRUE, span |-> SubSeq(s, a, b)]

(***************************************************************************)
(* parseAIResponse.  An outcome is a returned value or a thrown error:     *)
(*   via    the step that produced it: "direct" (line 344), "span" (line   *)
(*          349), "none" (line 351)                                        *)
(*   error  the thrown error's name, message its message, data what else   *)
(*          it carries (<<>>: nothing)                                     *)
(***************************************************************************)
FailedMessage == "Failed to parse AI response"
NoOutcome ==
    [kind |-> "none", val |-> Undefined, via |-> "none",
     error |-> "", message |-> "", data |-> <<>>]
Return(v, by) ==
    [kind |-> "return", val |-> v, via |-> by,
     error |-> "", message |-> "", data |-> <<>>]
Throw(name, msg, by) ==
    [kind |-> "throw", val |-> Undefined, via |-> by,
     error |-> name, message |-> msg, data |-> <<>>]

\* the message of the SyntaxError JSON.parse throws is the engine's own
JsonSyntaxError(by) == Throw("SyntaxError", "JSON.parse", by)

SpanFirstParseAIResponse(s) ==
    LET m == JsonMatch(s) IN
    IF m.found /\ JSONParse(m.span).ok THEN Return(JSONParse(m.span).val, "span")
    ELSE IF JSONParse(s).ok THEN Return(JSONParse(s).val, "direct")
    ELSE Throw("Error", FailedMessage, "none")

NoThrowParseAIResponse(s) ==
    LET d == JSONParse(s) IN
    IF d.ok THEN Return(d.val, "direct")
    ELSE LET m == JsonMatch(s) IN
         IF m.found
         THEN LET p == JSONParse(m.span) IN
              IF p.ok THEN Return(p.val, "span") ELSE JsonSyntaxError("span")
         ELSE Return(JLit("null"), "none")

NarrowingParseAIResponse(s) ==
    LET d == JSONParse(s) IN
    IF d.ok THEN Return(d.val, "direct")
    ELSE LET m == JsonMatch(s)
             n == LazyJsonMatch(s) IN
         IF m.found /\ JSONParse(m.span).ok THEN Return(JSONParse(m.span).val, "span")
         ELSE IF n.found /\ JSONParse(n.span).ok
              THEN Return(JSONParse(n.span).val, "span")
         ELSE IF m.found THEN JsonSyntaxError("span")
         ELSE Throw("Error", FailedMessage, "none")

ParseAIResponse(s) ==
    LET d == JSONParse(s) IN
    IF d.ok THEN Return(d.val, "direct")
    ELSE LET m == JsonMatch(s) IN
         IF m.found
         THEN LET p == JSONParse(m.span) IN
              IF p.ok THEN Return(p.val, "span") ELSE JsonSyntaxError("span")
         ELSE Throw("Error", FailedMessage, "none")

(***************************************************************************)
(* Inputs of parseAIResponse.                                              *)
(***************************************************************************)
Chars == {"{", "}", Quote, ":", ",", "1", "a", " "}
RawTexts == UNION {[1..n -> Chars] : n \in 0..MaxLen}

Keys == {<<"a">>, <<"{">>, <<>>}
Leaves == {JNum(1), JStr(<<"a">>), JStr(<<"}">>), JLit("null"), JObj(<<>>)}
Values ==
    Leaves
    \cup {JObj(<<JMember(<<"a">>, v)>>) : v \in {JNum(1), JStr(<<"}">>), JObj(<<>>)}}
    \cup {JArr(<<JNum(10), JObj(<<>>)>>)}
Members == {JMember(k, v) : k \in Keys, v \in Values}
DistinctKeys(ms) == \A i, j \in 1..Len(ms) : i # j => ms[i].s # ms[j].s
Objects ==
    {JObj(ms) : ms \in {m \in UNION {[1..n -> Members] : n \in 0..MaxMembers} :
                          DistinctKeys(m)}}

Noise == <<"n", "o", "i", "s", "e", " ">>
Trailing == <<" ", "t", "r", "a", "i", "l", "i", "n", "g">>

PdfIdle ==
    /\ pc = "idle" /\ y = 0 /\ pagesLen = 0 /\ curPage = 0 /\ breaks = 0
    /\ drawn = <<>> /\ bare = TRUE
    /\ extra = FALSE /\ sumDrawn = FALSE /\ totalPages = 0 /\ footI = 0
    /\ footers = <<>>
    /\ titled = ""

InitExtract ==
    /\ \/ source = "raw" /\ obj = Undefined /\ text \in RawTexts
       \/ source = "object" /\ obj \in Objects /\ text = Stringify(obj)
       \/ source = "wrapped" /\ obj \in Objects
          /\ text = Noise \o Stringify(obj) \o Trailing
    /\ xpc = "ready"
    /\ outcome = NoOutcome
    /\ PdfIdle
    /\ OtherIdle

\* one call parseAIResponse(text), as made at page.tsx line 1511
CallParseAIResponse ==
    /\ xpc = "ready"
    /\ outcome' = ParseAIResponse(text)
    /\ xpc' = "done"
    /\ UNCHANGED <<text, source, obj, pvars, nvars>>

NextExtract == CallParseAIResponse

SpecExtract == InitExtract /\ [][NextExtract]_vars

(***************************************************************************)
(* Claims about parseAIResponse, checked under SpecExtract.                *)
(***************************************************************************)
HasBrace(s) == \E i \in 1..Len(s) : s[i] \in {"{", "}"}
BothParsesFail(s) ==
    /\ ~JSONParse(s).ok
    /\ JsonMatch(s).found => ~JSONParse(JsonMatch(s).span).ok

\* C1: for every text that is the JSON text of an object, parseAIResponse
\* returns what JSON.parse gives for it, through the direct-parse step; for the
\* text JSON.stringify(obj) that value is obj itself.
C1_DirectParseOfObjectText ==
    /\ (xpc = "done" /\ JSONParse(text).ok /\ JSONParse(text).val.t = "obj")
          => outcome = Return(JSONParse(text).val, "direct")
    /\ (xpc = "done" /\ source = "object") => outcome = Return(obj, "direct")

C1_Witness ==
    /\ xpc = "done" /\ source = "object" /\ Len(obj.kids) = 2
    /\ outcome.kind = "return" /\ outcome.via = "direct"

\* C2: for every object obj, parseAIResponse("noise " + JSON.stringify(obj) +
\* " trailing") returns obj: the direct parse fails and the brace span recovers it.
C2_WrappedObjectRecovered ==
    (xpc = "done" /\ source = "wrapped")
        => /\ ~JSONParse(text).ok
           /\ outcome = Return(obj, "span")

C2_Witness ==
    /\ xpc = "done" /\ source = "wrapped" /\ outcome.kind = "return"
    /\ \E i \in 1..Len(obj.kids) : obj.kids[i].kids[1].t = "obj"
    /\ \E i \in 1..Len(obj.kids) : obj.kids[i].kids[1] = JStr(<<"}">>)

\* C3: a text with neither "{" nor "}" that is not valid JSON (the empty text
\* included) makes parseAIResponse throw its parse failure; no value is returned.
C3_NoBraceTextFails ==
    (xpc = "done" /\ ~HasBrace(text) /\ ~JSONParse(text).ok)
        => /\ outcome.kind = "throw"
           /\ outcome.error = "Error" /\ outcome.message = FailedMessage
           /\ outcome.val = Undefined

C3_Witness ==
    /\ xpc = "done" /\ text = <<"a", " ", "1">> /\ outcome.kind = "throw"

\* C4: whenever the direct parse and the parse of the brace span both fail (a
\* span that is found but is not valid JSON included), parseAIResponse fails with
\* the one failure kind of line 351, and that failure carries the raw text.
C4_OneFailureKindCarryingRawText ==
    (xpc = "done" /\ BothParsesFail(text))
        => /\ outcome.kind = "throw"
           /\ outcome.error = "Error" /\ outcome.message = FailedMessage
           /\ outcome.data = <<text>>

(***************************************************************************)
(* generateAnalysisPDF.  jsPDF's default page is A4 portrait in mm.        *)
(***************************************************************************)
PageWidth == 210
PageHeight == 297
Margin == 20
ContentWidth == PageWidth - 2 * Margin
LineHeight == 5

\* pdf.splitTextToSize(text, maxWidth).length, for a text of rendered width w
Lines(w, maxWidth) == IF w = 0 THEN 1 ELSE (w + maxWidth - 1) \div maxWidth
Max(a, b) == IF a >= b THEN a ELSE b

\* rendered width of `${label}:` in bold 10pt: every label fits the 50 mm column
LabelWidth(label) ==
    CASE label = "Role Alignment" -> 28
      [] label = "Location" -> 17
      [] label = "Remote Work" -> 25
      [] label = "Commitment" -> 23
      [] OTHER -> 26

\* the positions of generateAnalysisPDF, in source order
Order ==
    <<"header", "candidate", "job", "score", "summary", "skills", "gaps", "recs",
      "career", "careerSummary", "careerGrowth", "careerAlign",
      "location", "locCompat", "locRemote", "locCommit", "locConcerns",
      "cred", "credQuality", "credPresence", "credIndicators",
      "footer", "footerLoop", "done">>
Rank(p) == CHOOSE i \in 1..Len(Order) : Order[i] = p

SwappedAfter(p) ==
    CASE p = "summary" -> "gaps"
      [] p = "gaps" -> "skills"
      [] p = "skills" -> "recs"
      [] OTHER -> Order[Rank(p) + 1]

After(p) == Order[Rank(p) + 1]

\* the drawing state the helpers close over: y, the document, and the blocks
\* drawn so far in this step
Cur ==
    [y |-> y, pagesLen |-> pagesLen, curPage |-> curPage, breaks |-> breaks,
     blocks |-> <<>>]

\* a drawn block of the section part sec: need is the height passed to addNewPageIfNeeded before it
\* (checked = FALSE: no such call), fresh whether that call added a page, h the
\* vertical extent the block takes, from the cursor before that call (see CheckedAt)
Block(kind, sec, c, h, need, checked, fresh) ==
    [kind |-> kind, sec |-> sec, page |-> c.curPage, y |-> c.y, h |-> h,
     need |-> need, checked |-> checked, fresh |-> fresh, from |-> c.y]

\* the block b, drawn after addNewPageIfNeeded was called in the drawing state c
CheckedAt(c, b) == [b EXCEPT !.from = c.y]

Draw(c, b, advance) ==
    [c EXCEPT !.blocks = Append(@, b), !.y = @ + advance]

EagerAddNewPageIfNeeded(c, requiredHeight) ==
    IF c.y + requiredHeight >= PageHeight - Margin
    THEN [c EXCEPT !.pagesLen = @ + 1, !.curPage = c.pagesLen, !.y = Margin,
                   !.breaks = @ + 1]
    ELSE c

AddNewPageIfNeeded(c, requiredHeight) ==
    IF c.y + requiredHeight > PageHeight - Margin
    THEN [c EXCEPT !.pagesLen = @ + 1, !.curPage = c.pagesLen, !.y = Margin,
                   !.breaks = @ + 1]
    ELSE c

AddSectionTitle(c, sec) ==
    LET c1 == AddNewPageIfNeeded(c, 20) IN
    Draw(c1, CheckedAt(c, Block("title", sec, c1, 8, 20, TRUE, c1.breaks # c.breaks)),
         8)

SubHeading(c, sec) ==
    LET c1 == AddNewPageIfNeeded(c, 10) IN
    Draw(c1, CheckedAt(c, Block("subhead", sec, c1, 6, 10, TRUE,
                                c1.breaks # c.breaks)), 6)

AddBulletItem(c, sec, item) ==
    LET blockHeight == Lines(item, ContentWidth - 10) * LineHeight + 3
        c1 == AddNewPageIfNeeded(c, blockHeight) IN
    Draw(c1, CheckedAt(c, Block("bullet", sec, c1, blockHeight, blockHeight, TRUE,
                                c1.breaks # c.breaks)), blockHeight)

RECURSIVE AddBulletItems(_, _, _)
AddBulletItems(c, sec, items) ==
    IF items = <<>> THEN c
    ELSE AddBulletItems(AddBulletItem(c, sec, Head(items)), sec, Tail(items))

AddBulletList(c, sec, items) ==
    [AddBulletItems(c, sec, items) EXCEPT !.y = @ + 3]

AddParagraph(c, sec, t) ==
    LET blockHeight == Lines(t, ContentWidth) * LineHeight + 5
        c1 == AddNewPageIfNeeded(c, blockHeight) IN
    Draw(c1, CheckedAt(c, Block("para", sec, c1, blockHeight, blockHeight, TRUE,
                                c1.breaks # c.breaks)), blockHeight)

\* a key/value block: the block of a label wrapped to labelLines lines and a value
\* wrapped to valueLines lines, drawn side by side at the cursor
KeyValueBlock(sec, c, labelLines, valueLines, advance) ==
    [kind |-> "kv", sec |-> sec, page |-> c.curPage, y |-> c.y, h |-> advance,
     need |-> 0, checked |-> FALSE, fresh |-> FALSE, from |-> c.y,
     labelLines |-> labelLines, valueLines |-> valueLines]

StackedAddKeyValue(c, sec, label, value) ==
    LET labelLines == Lines(LabelWidth(label), 50)
        valueLines == Lines(value, ContentWidth - 55)
        advance == (labelLines + valueLines) * LineHeight + 3 IN
    Draw(c, KeyValueBlock(sec, c, labelLines, valueLines, advance), advance)

AddKeyValue(c, sec, label, value) ==
    LET labelLines == Lines(LabelWidth(label), 50)
        valueLines == Lines(value, ContentWidth - 55)
        advance == Max(labelLines, valueLines) * LineHeight + 3 IN
    Draw(c, KeyValueBlock(sec, c, labelLines, valueLines, advance), advance)

(***************************************************************************)
(* Inputs of generateAnalysisPDF.  A text is its rendered width (0: the    *)
(* field is absent or the empty string, both falsy); a list is a sequence  *)
(* of non-empty texts (<<>>: absent or empty).                             *)
(***************************************************************************)
ItemTexts == {ShortWidth, LongWidth}
Texts == {0} \cup ItemTexts
ValueTexts == Texts \cup {MidWidth}
Lists == UNION {[1..n -> ItemTexts] : n \in 0..MaxItems}

ExtractIdle ==
    /\ text = <<>> /\ source = "none" /\ obj = Undefined /\ xpc = "idle"
    /\ outcome = NoOutcome

\* const pdf = new jsPDF(); let y = margin  (lines 1203-1208)
InitPdf ==
    /\ pc = "header"
    /\ y = Margin
    /\ pagesLen = 2
    /\ curPage = 1
    /\ breaks = 0
    /\ drawn = <<>>
    /\ bare = TRUE
    /\ extra = FALSE
    /\ sumDrawn = FALSE
    /\ totalPages = 0
    /\ footI = 0
    /\ footers = <<>>
    /\ titled = ""
    /\ ExtractIdle
    /\ OtherIdle

\* a block outside the header, the candidate block, the job block and the Job
\* Summary section
IsExtra(b) == b.sec \notin {"header", "candidate", "job", "summary"}

\* the section left with a title and nothing under it once the blocks of a step are
\* drawn, t being that section before the step: a title opens its section, a
\* paragraph, bullet item or key/value pair is content
RECURSIVE Untitled(_, _)
Untitled(t, blocks) ==
    IF blocks = <<>> THEN t
    ELSE LET b == Head(blocks) IN
         Untitled(IF b.kind = "title" THEN b.sec
                  ELSE IF b.kind \in {"para", "bullet", "kv"} THEN ""
                  ELSE t,
                  Tail(blocks))

\* one step of the content pass: c is the drawing state it ends in, next the
\* position it goes to, empty whether the analysis field it read was absent or empty
Step(c, next, empty) ==
    /\ y' = c.y
    /\ pagesLen' = c.pagesLen
    /\ curPage' = c.curPage
    /\ breaks' = c.breaks
    /\ drawn' = c.blocks
    /\ pc' = next
    /\ bare' = (bare /\ empty)
    /\ extra' = (extra \/ \E i \in 1..Len(c.blocks) : IsExtra(c.blocks[i]))
    /\ titled' = Untitled(titled, c.blocks)
    /\ UNCHANGED <<totalPages, footI, footers, xvars, nvars>>

\* lines 1274-1288
Header ==
    /\ pc = "header"
    /\ LET c == Draw([Cur EXCEPT !.y = 20],
                     Block("header", "header", [Cur EXCEPT !.y = 20], 10, 0,
                           FALSE, FALSE), 0)
       IN Step([c EXCEPT !.y = 55], After("header"), TRUE)
    /\ UNCHANGED sumDrawn

\* lines 1290-1304
CandidateInfo ==
    /\ pc = "candidate"
    /\ Step(Draw(Cur, Block("candidate", "candidate", Cur, 25, 0, FALSE, FALSE), 30),
            After("candidate"), TRUE)
    /\ UNCHANGED sumDrawn

\* lines 1306-1324
JobInfo ==
    /\ pc = "job"
    /\ Step(Draw(Cur, Block("job", "job", Cur, 18, 0, FALSE, FALSE), 18),
            After("job"), TRUE)
    /\ UNCHANGED sumDrawn

\* a statement of the content pass throws: the function ends there and nothing is
\* saved
Throws ==
    /\ pc' = "threw"
    /\ drawn' = <<>>
    /\ UNCHANGED <<y, pagesLen, curPage, breaks, bare, extra, sumDrawn, totalPages,
                   footI, footers, titled, xvars, nvars>>

\* line 1297 when the candidate record has no person: genome.person.name is a
\* TypeError
CandidateInfoThrows == pc = "candidate" /\ Throws

\* line 1314 when the job record has no objective: pdf.text(undefined, ...) is
\* refused by jsPDF (and line 1460, job.objective.replace, is a TypeError)
JobInfoThrows == pc = "job" /\ Throws

\* lines 1345-1361 when a list field of the analysis is a non-empty string: its
\* length is > 0 and addBulletList calls items.forEach (line 1233), a TypeError
ListSectionThrows == pc \in {"skills", "gaps", "recs"} /\ Throws

\* lines 1326-1336
OverallFitScore ==
    /\ pc = "score"
    /\ \E present \in BOOLEAN :
         Step(IF present
              THEN Draw(Cur, Block("badge", "score", Cur, 20, 0, FALSE, FALSE), 25)
              ELSE Cur,
              After("score"), ~present)
    /\ UNCHANGED sumDrawn

\* lines 1338-1343
JobSummary ==
    /\ pc = "summary"
    /\ \E jobSummary \in Texts :
         /\ Step(IF jobSummary # 0
                 THEN LET c == AddParagraph(AddSectionTitle(Cur, "summary"),
                                            "summary", jobSummary)
                      IN [c EXCEPT !.y = @ + 5]
                 ELSE Cur,
                 After("summary"), TRUE)
         /\ sumDrawn' = (jobSummary # 0)

\* a titled bullet list (lines 1345-1361)
ListSection(p) ==
    /\ pc = p
    /\ \E items \in Lists :
         Step(IF Len(items) > 0
              THEN AddBulletList(AddSectionTitle(Cur, p), p, items)
              ELSE Cur,
              After(p), items = <<>>)
    /\ UNCHANGED sumDrawn

MatchingSkills == ListSection("skills")
AreasForDevelopment == ListSection("gaps")
Recommendations == ListSection("recs")

\* if (analysis.<sub-object>) addSectionTitle(...): lines 1364-1365, 1388-1389,
\* 1414-1415; an absent sub-object skips to the position `skip`
SubObject(p, skip) ==
    /\ pc = p
    /\ \E present \in BOOLEAN :
         Step(IF present THEN AddSectionTitle(Cur, p) ELSE Cur,
              IF present THEN After(p) ELSE skip, TRUE)
    /\ UNCHANGED sumDrawn

CareerTrajectory == SubObject("career", "location")
LocationAndWorkStyle == SubObject("location", "cred")
ProfessionalCredibility == SubObject("cred", "footer")

\* lines 1367-1369
CareerSummary ==
    /\ pc = "careerSummary"
    /\ \E summary \in Texts :
         Step(IF summary # 0 THEN AddParagraph(Cur, "careerSummary", summary)
              ELSE Cur,
              After("careerSummary"), summary = 0)
    /\ UNCHANGED sumDrawn

\* a sub-heading and its bullet list; lead is what is added to y before the
\* sub-heading (lines 1371-1379: 0; lines 1401-1410, 1421-1441: 3)
SubList(p, lead) ==
    /\ pc = p
    /\ \E items \in Lists :
         Step(IF Len(items) > 0
              THEN AddBulletList(SubHeading([Cur EXCEPT !.y = @ + lead], p),
                                 p, items)
              ELSE Cur,
              After(p), items = <<>>)
    /\ UNCHANGED sumDrawn

GrowthIndicators == SubList("careerGrowth", 0)
PotentialConcerns == SubList("locConcerns", 3)
ProfessionalPresence == SubList("credPresence", 3)
CredibilityIndicators == SubList("credIndicators", 3)

\* lines 1381-1384: the one key/value preceded by addNewPageIfNeeded(15)
RoleAlignment ==
    /\ pc = "careerAlign"
    /\ \E alignmentWithRole \in ValueTexts :
         Step(IF alignmentWithRole # 0
              THEN LET c1 == AddNewPageIfNeeded(Cur, 15)
                       c2 == AddKeyValue(c1, "careerAlign", "Role Alignment",
                                         alignmentWithRole)
                   IN [c2 EXCEPT !.blocks =
                         <<[c2.blocks[1] EXCEPT !.need = 15, !.checked = TRUE,
                                                !.fresh = (c1.breaks # breaks),
                                                !.from = y]>>]
              ELSE Cur,
              After("careerAlign"), alignmentWithRole = 0)
    /\ UNCHANGED sumDrawn

\* a key/value drawn without a page check (lines 1391-1399, 1417-1419)
KeyValue(p, label) ==
    /\ pc = p
    /\ \E value \in ValueTexts :
         Step(IF value # 0 THEN AddKeyValue(Cur, p, label, value) ELSE Cur,
              After(p), value = 0)
    /\ UNCHANGED sumDrawn

LocationCompatibility == KeyValue("locCompat", "Location")
RemoteWorkAlignment == KeyValue("locRemote", "Remote Work")
CommitmentLevelMatch == KeyValue("locCommit", "Commitment")
ProfileQuality == KeyValue("credQuality", "Profile Quality")

\* line 1445
OffByOneTotalPages == pagesLen

TotalPages == pagesLen - 1

FooterStart ==
    /\ pc = "footer"
    /\ totalPages' = TotalPages
    /\ footI' = 1
    /\ pc' = "footerLoop"
    /\ drawn' = <<>>
    /\ UNCHANGED <<y, pagesLen, curPage, breaks, bare, extra, sumDrawn, footers, titled,
                   xvars, nvars>>

\* one iteration of the loop of lines 1446-1457: setPage(i), then the footer text
FooterStamp ==
    /\ pc = "footerLoop"
    /\ footI <= totalPages
    /\ curPage' = footI
    /\ footers' = Append(footers, [page |-> footI, i |-> footI, total |-> totalPages])
    /\ footI' = footI + 1
    /\ UNCHANGED <<pc, y, pagesLen, breaks, drawn, bare, extra, sumDrawn, totalPages,
                   titled, xvars, nvars>>

\* the loop ends; lines 1459-1461: pdf.save(fileName)
Save ==
    /\ pc = "footerLoop"
    /\ footI > totalPages
    /\ pc' = "done"
    /\ UNCHANGED <<y, pagesLen, curPage, breaks, drawn, bare, extra, sumDrawn,
                   totalPages, footI, footers, titled, xvars, nvars>>

NextPdf ==
    \/ Header \/ CandidateInfo \/ JobInfo \/ OverallFitScore \/ JobSummary
    \/ CandidateInfoThrows \/ JobInfoThrows \/ ListSectionThrows
    \/ MatchingSkills \/ AreasForDevelopment \/ Recommendations
    \/ CareerTrajectory \/ CareerSummary \/ GrowthIndicators \/ RoleAlignment
    \/ LocationAndWorkStyle \/ LocationCompatibility \/ RemoteWorkAlignment
    \/ CommitmentLevelMatch \/ PotentialConcerns
    \/ ProfessionalCredibility \/ ProfileQuality \/ ProfessionalPresence
    \/ CredibilityIndicators
    \/ FooterStart \/ FooterStamp \/ Save

SpecPdf == InitPdf /\ [][NextPdf]_vars

Init == InitExtract \/ InitPdf
Next == NextExtract \/ NextPdf
Spec == Init /\ [][Next]_vars

(***************************************************************************)
(* Claims about generateAnalysisPDF, checked under SpecPdf.                *)
(***************************************************************************)
AddKinds == {"title", "para", "bullet", "kv"}
Needed(b) == Max(b.need, b.h)

\* C6: every add operation (section title, paragraph, bullet item, key/value
\* pair) checks its needed height first, so every block such an operation draws
\* either fits above pageHeight - margin or starts at y = margin on a page that
\* was added for it.
C6_AddedBlockFitsOrStartsFreshPage ==
    \A i \in 1..Len(drawn) :
        drawn[i].kind \in AddKinds
            => \/ drawn[i].y + Needed(drawn[i]) <= PageHeight - Margin
               \/ drawn[i].fresh /\ drawn[i].y = Margin

\* C7: every block generateAnalysisPDF draws starts at a vertical position y
\* with 0 <= y <= pageHeight.
C7_BlockStartsOnThePage ==
    \A i \in 1..Len(drawn) : 0 <= drawn[i].y /\ drawn[i].y <= PageHeight

\* C8: after the content pass every page produced has exactly one footer
\* "Page i of total", i the page's 1-based index and total the number of pages
\* produced (1 plus the page breaks taken); no footer is stamped before all
\* content is drawn.
C8_OneFooterPerPage ==
    /\ footers # <<>> => pc \in {"footerLoop", "done"}
    /\ pc = "done"
          => /\ Len(footers) = 1 + breaks
             /\ \A k \in 1..Len(footers) :
                    footers[k] = [page |-> k, i |-> k, total |-> 1 + breaks]

C8_Witness == pc = "done" /\ breaks >= 2 /\ Len(footers) >= 3

\* C9: for an analysis with only jobSummary set, every list field and optional
\* sub-object being empty or absent, the document holds the header, the
\* candidate block, the job block and the Job Summary section and nothing else.
C9_OnlyJobSummaryDrawsNothingElse ==
    (pc = "done" /\ bare /\ sumDrawn) => ~extra

\* C10: the section parts are emitted in the fixed order header, candidate, job,
\* score badge, job summary, matching skills, areas for development,
\* recommendations, career trajectory (summary, growth indicators, role
\* alignment), location / work style (three key/values, concerns), professional
\* credibility (quality, presence, credibility indicators): what a step emits
\* belongs to the part it stands at, and the part it goes to comes later in that
\* order, so no part is emitted twice.  A step that throws emits nothing and
\* ends the function.
ClaimedOrder ==
    <<"header", "candidate", "job", "score", "summary", "skills", "gaps", "recs",
      "career", "careerSummary", "careerGrowth", "careerAlign",
      "location", "locCompat", "locRemote", "locCommit", "locConcerns",
      "cred", "credQuality", "credPresence", "credIndicators">>
InClaimedOrder(p) == \E i \in 1..Len(ClaimedOrder) : ClaimedOrder[i] = p
ClaimedRank(p) == CHOOSE i \in 1..Len(ClaimedOrder) : ClaimedOrder[i] = p

C10_SectionsInFixedOrder ==
    [][(pc' # pc /\ InClaimedOrder(pc))
          => /\ \A i \in 1..Len(drawn') : drawn'[i].sec = pc
             /\ InClaimedOrder(pc') => ClaimedRank(pc') > ClaimedRank(pc)
             /\ ~InClaimedOrder(pc') => pc' \in {"footer", "threw"}]_vars

C10_Witness ==
    /\ pc = "footer" /\ sumDrawn /\ breaks >= 1
    /\ drawn # <<>> /\ drawn[1].sec = "credIndicators"

\* C20: generateAnalysisPDF never throws, whatever analysis parseAIResponse
\* returned and whichever fields of the job and candidate records are absent: it
\* runs to completion and saves a document
C20_NeverThrows == pc # "threw"

(***************************************************************************)
(* The file name of the report (page.tsx line 1460):                       *)
(*   `Candidate_Fit_${genome.person.name?.replace(/\s+/g, "_") ||          *)
(*     "Unknown"}_${job.objective.replace(/\s+/g, "_").substring(0, 30)}   *)
(*     .pdf`                                                               *)
(***************************************************************************)

NameLen == 3
LongLen == 33

\* characters the regular expression class \s matches
RegexSpace == {" ", "\t", "\n"}

RECURSIVE DropSpaces(_)
DropSpaces(s) ==
    IF s # <<>> /\ Head(s) \in RegexSpace THEN DropSpaces(Tail(s)) ELSE s

RECURSIVE ReplaceEachSpace(_)
ReplaceEachSpace(s) ==
    IF s = <<>> THEN <<>>
    ELSE <<IF Head(s) \in RegexSpace THEN "_" ELSE Head(s)>>
         \o ReplaceEachSpace(Tail(s))

\* s.replace(/\s+/g, "_")
RECURSIVE ReplaceSpaceRuns(_)
ReplaceSpaceRuns(s) ==
    IF s = <<>> THEN <<>>
    ELSE IF Head(s) \in RegexSpace
         THEN <<"_">> \o ReplaceSpaceRuns(DropSpaces(Tail(s)))
         ELSE <<Head(s)>> \o ReplaceSpaceRuns(Tail(s))

\* s.substring(from, to), 0 <= from <= to
Substring(s, from, to) ==
    SubSeq(s, from + 1, IF to <= Len(s) THEN to ELSE Len(s))

TitleLimit == 30

CandidateFit == <<"C", "a", "n", "d", "i", "d", "a", "t", "e", "_", "F", "i", "t", "_">>
Unknown == <<"U", "n", "k", "n", "o", "w", "n">>
DotPdf == <<".", "p", "d", "f">>

\* genome.person.name?.replace(/\s+/g, "_") || "Unknown": an absent name gives
\* undefined and an empty one gives "", and both are falsy
NamePart(name) ==
    IF name.has /\ ReplaceSpaceRuns(name.chars) # <<>>
    THEN ReplaceSpaceRuns(name.chars)
    ELSE Unknown

\* job.objective.replace(/\s+/g, "_").substring(0, 30)
TitlePart(title) == Substring(ReplaceSpaceRuns(title.chars), 0, TitleLimit)

FileName(name, title) ==
    [name  |-> NamePart(name),
     title |-> TitlePart(title),
     full  |-> CandidateFit \o NamePart(name) \o <<"_">> \o TitlePart(title) \o DotPdf]

JaneDoe == <<"J", "a", "n", "e", " ", "D", "o", "e">>
SeniorDesigner ==
    <<"S", "e", "n", "i", "o", "r", " ", "D", "e", "s", "i", "g", "n", "e", "r">>

NameChars == {"a", " ", "\t"}
ShortTexts == UNION {[1..n -> NameChars] : n \in 0..NameLen}

\* w repeated up to length n
Repeated(w, n) == [i \in 1..n |-> w[((i - 1) % Len(w)) + 1]]
LongTexts == {Repeated(w, LongLen) : w \in ShortTexts \ {<<>>}}

Present(s) == [has |-> TRUE, chars |-> s]
CandidateNames == {NoText} \cup {Present(s) : s \in ShortTexts \cup {JaneDoe}}
JobTitles ==
    {NoText} \cup {Present(s) : s \in ShortTexts \cup LongTexts \cup {SeniorDesigner}}

InitFileName ==
    /\ fname \in CandidateNames
    /\ ftitle \in JobTitles
    /\ fpc = "ready"
    /\ fileName = NoFileName
    /\ ExtractIdle
    /\ PdfIdle
    /\ IdleExcept("file")

\* line 1460 and pdf.save(fileName), line 1461
BuildFileName ==
    /\ fpc = "ready"
    /\ ftitle.has
    /\ fileName' = FileName(fname, ftitle)
    /\ fpc' = "saved"
    /\ UNCHANGED <<fname, ftitle, xvars, pvars>>
    /\ KeepExcept("file")

\* line 1460 with job.objective undefined: undefined.replace is a TypeError
FileNameThrows ==
    /\ fpc = "ready"
    /\ ~ftitle.has
    /\ fpc' = "threw"
    /\ UNCHANGED <<fname, ftitle, fileName, xvars, pvars>>
    /\ KeepExcept("file")

NextFileName == BuildFileName \/ FileNameThrows

SpecFileName == InitFileName /\ [][NextFileName]_vars

\* the positions of s that start a part of the result: every character that is
\* not white space, and the first character of every run of white space
Kept(s) == {i \in 1..Len(s) : s[i] \notin RegexSpace \/ i = 1 \/ s[i - 1] \notin RegexSpace}
Place(s, i) == Cardinality({j \in Kept(s) : j <= i})

\* out is the first limit characters of s with every run of white space
\* replaced by one underscore
IsCollapsed(s, out, limit) ==
    /\ Len(out) = (IF Cardinality(Kept(s)) <= limit THEN Cardinality(Kept(s)) ELSE limit)
    /\ \A i \in Kept(s) :
          Place(s, i) <= limit =>
              out[Place(s, i)] = (IF s[i] \in RegexSpace THEN "_" ELSE s[i])

Contains(s, w) ==
    \E i \in 0..(Len(s) - Len(w)) : SubSeq(s, i + 1, i + Len(w)) = w

\* C11: the saved file name is 'Candidate_Fit_' + name part + '_' + title part +
\* '.pdf'; in both parts every run of white space is one underscore (so no part
\* holds white space), the title part has at most 30 characters, a missing
\* candidate name gives 'Unknown', and 'Jane Doe' with 'Senior Designer' gives a
\* name that contains 'Jane_Doe' and 'Senior_Designer'
C11_FileNameFromNameAndTitle ==
    fpc = "saved" =>
        /\ fileName.full
             = CandidateFit \o fileName.name \o <<"_">> \o fileName.title \o DotPdf
        /\ \A i \in 1..Len(fileName.name) : fileName.name[i] \notin RegexSpace
        /\ \A i \in 1..Len(fileName.title) : fileName.title[i] \notin RegexSpace
        /\ Len(fileName.title) <= 30
        /\ IsCollapsed(ftitle.chars, fileName.title, 30)
        /\ ~fname.has => fileName.name = Unknown
        /\ (fname.has /\ fname.chars # <<>>) =>
               IsCollapsed(fname.chars, fileName.name, Len(fname.chars))
        /\ (fname = Present(JaneDoe) /\ ftitle = Present(SeniorDesigner)) =>
               /\ Contains(fileName.full, <<"J", "a", "n", "e", "_", "D", "o", "e">>)
               /\ Contains(fileName.full,
                           <<"S", "e", "n", "i", "o", "r", "_",
                             "D", "e", "s", "i", "g", "n", "e", "r">>)

C11_Witness ==
    /\ fpc = "saved"
    /\ fname = Present(JaneDoe)
    /\ ftitle = Present(SeniorDesigner)
    /\ fileName.full
         = <<"C", "a", "n", "d", "i", "d", "a", "t", "e", "_", "F", "i", "t", "_",
             "J", "a", "n", "e", "_", "D", "o", "e", "_",
             "S", "e", "n", "i", "o", "r", "_", "D", "e", "s", "i", "g", "n", "e", "r",
             ".", "p", "d", "f">>

(***************************************************************************)
(* POST /api/ai (src/app/api/ai/route.ts).  A message is a sequence of     *)
(* words.                                                                  *)
(***************************************************************************)

PromptRequired == <<"Prompt", "is", "required">>
NotConfigured ==
    <<"Google", "API", "key", "not", "configured.", "Set",
      "GOOGLE_GENERATIVE_AI_API_KEY", "environment", "variable.">>
Unexpected == <<"An", "unexpected", "error", "occurred">>
DefaultModel == <<"gemini-2.5-flash-lite">>

\* message.includes(part)
Includes(message, part) ==
    \E i \in 0..(Len(message) - Len(part)) :
        SubSeq(message, i + 1, i + Len(part)) = part

\* !v for a string field that may be absent
OnlyAbsent(v) == ~v.has

Falsy(v) == ~v.has \/ v.chars = <<>>

\* modelId || process.env.GOOGLE_MODEL || "gemini-2.5-flash-lite"
ModelName(req, env) ==
    IF ~Falsy(req.model) THEN req.model.chars
    ELSE IF ~Falsy(env.model) THEN env.model.chars
    ELSE DefaultModel

Json(status, message, generated) ==
    [status |-> status, error |-> message, text |-> generated]
ErrorValue(message) == [kind |-> "Error", message |-> message]
OtherValue == [kind |-> "other", message |-> <<>>]

\* the catch block, lines 49-70
AiCatch(thrown) ==
    IF thrown.kind = "Error"
    THEN IF Includes(thrown.message, <<"API", "key">>)
         THEN Json(500, NotConfigured, <<>>)
         ELSE Json(500, thrown.message, <<>>)
    ELSE Json(500, Unexpected, <<>>)

BodySyntaxError == ErrorValue(<<"Unexpected", "token">>)

\* what generateText throws when the credential is unset (the provider finds no key)
MissingKey ==
    ErrorValue(<<"Google", "Generative", "AI", "API", "key", "is", "missing.">>)
\* what the service answers to a key it does not accept
InvalidKey == ErrorValue(<<"API", "key", "not", "valid.">>)
OtherFailures ==
    {ErrorValue(<<"Quota", "exceeded">>), ErrorValue(<<"fetch", "failed">>), OtherValue}
GeneratedText == <<"generated">>

Fields == {NoText, Present(<<>>), Present(<<"p">>)}
AiRequests ==
    {NoAiRequest}
    \cup {[json |-> TRUE, prompt |-> p, systemPrompt |-> sp, model |-> m] :
            p \in Fields, sp \in {NoText, Present(<<"s">>)},
            m \in {NoText, Present(<<"m">>)}}
AiEnvs ==
    {[credential |-> c, model |-> m] :
        c \in {"unset", "invalid", "valid"}, m \in {NoText, Present(<<"e">>)}}

InitAi ==
    /\ aReq \in AiRequests
    /\ aEnv \in AiEnvs
    /\ apc = "ready"
    /\ aCall = NoCall
    /\ genCalls = 0
    /\ aThrown = NoThrown
    /\ aResp = NoResponse
    /\ ExtractIdle
    /\ PdfIdle
    /\ IdleExcept("ai")

\* lines 25-42: the body is read; without a prompt the answer is 400, with one
\* generateText is called
AiReadBody ==
    /\ apc = "ready"
    /\ IF ~aReq.json
       THEN /\ aThrown' = BodySyntaxError
            /\ aResp' = AiCatch(BodySyntaxError)
            /\ apc' = "done"
            /\ UNCHANGED <<aCall, genCalls>>
       ELSE IF Falsy(aReq.prompt)
       THEN /\ aResp' = Json(400, PromptRequired, <<>>)
            /\ apc' = "done"
            /\ UNCHANGED <<aCall, genCalls, aThrown>>
       ELSE /\ aCall' = [model  |-> ModelName(aReq, aEnv),
                         system |-> aReq.systemPrompt,
                         prompt |-> aReq.prompt.chars]
            /\ genCalls' = genCalls + 1
            /\ apc' = "generating"
            /\ UNCHANGED <<aThrown, aResp>>
    /\ UNCHANGED <<aReq, aEnv, xvars, pvars>>
    /\ KeepExcept("ai")

\* lines 38-48: generateText resolves
AiGenerated ==
    /\ apc = "generating"
    /\ aEnv.credential = "valid"
    /\ aResp' = Json(200, <<>>, GeneratedText)
    /\ apc' = "done"
    /\ UNCHANGED <<aReq, aEnv, aCall, genCalls, aThrown, xvars, pvars>>
    /\ KeepExcept("ai")

\* lines 38 and 49-70: generateText rejects
AiGenerateFails ==
    /\ apc = "generating"
    /\ \E thrown \in {MissingKey, InvalidKey} \cup OtherFailures :
          /\ aEnv.credential = "unset" => thrown = MissingKey
          /\ aEnv.credential = "invalid" => thrown = InvalidKey
          /\ aEnv.credential = "valid" => thrown \in OtherFailures
          /\ aThrown' = thrown
          /\ aResp' = AiCatch(thrown)
    /\ apc' = "done"
    /\ UNCHANGED <<aReq, aEnv, aCall, genCalls, xvars, pvars>>
    /\ KeepExcept("ai")

NextAi == AiReadBody \/ AiGenerated \/ AiGenerateFails

SpecAi == InitAi /\ [][NextAi]_vars

\* C12: a request whose body has no prompt, or an empty one, is answered 400
\* 'Prompt is required', and generateText is not called
C12_MissingPromptIs400 ==
    (apc = "done" /\ aReq.json /\ (~aReq.prompt.has \/ aReq.prompt.chars = <<>>)) =>
        /\ aResp = [status |-> 400, error |-> <<"Prompt", "is", "required">>,
                    text |-> <<>>]
        /\ genCalls = 0
        /\ aCall = NoCall

C12_Witness ==
    /\ apc = "done" /\ aReq.json /\ aReq.prompt = Present(<<>>)
    /\ aResp.status = 400 /\ genCalls = 0

\* C13: with a prompt, a failing generation is answered 500; the message is the
\* 'API key not configured' one when the credential is unset and the failure's
\* own message in every other case, and the two cases are never confused
C13_FailureMessagesNotConfused ==
    (apc = "done" /\ genCalls = 1 /\ aThrown.kind # "none") =>
        /\ aResp.status = 500
        /\ aEnv.credential = "unset" => aResp.error = NotConfigured
        /\ aEnv.credential # "unset" =>
               aResp.error = aThrown.message /\ aResp.error # NotConfigured

(***************************************************************************)
(* POST /api/search (src/app/api/search/route.ts).  The data of a response *)
(* is kept as the text NextResponse.json writes for it.                    *)
(***************************************************************************)

DefaultSize == <<"1", "0">>
UnknownError == <<"Unknown", "error">>

AlwaysDefaultSize(q) == DefaultSize

\* searchParams.get("size") || "10"
SizeParam(q) == IF Falsy(q) THEN DefaultSize ELSE q.chars

\* the catch block, lines 21-26
SearchCatch(thrown) ==
    [status  |-> 500,
     error   |-> IF thrown.kind = "Error" THEN thrown.message ELSE UnknownError,
     hasData |-> FALSE,
     data    |-> <<>>]

\* NextResponse.json(data, { status })
SearchJson(data, status) ==
    [status |-> status, error |-> <<>>, hasData |-> TRUE, data |-> Stringify(data)]

SearchBodies ==
    {<<>>,
     <<"{">>,
     <<"1">>,
     <<"{", "}">>,
     <<"{", Quote, "a", Quote, ":", "1", "}">>,
     <<" ", "{", " ", Quote, "a", Quote, " ", ":", " ", "1", " ", "}", " ">>,
     <<"{", Quote, "a", Quote, ":", "1", ",", Quote, "a", Quote, ":", Quote, "b", Quote, "}">>}
SearchSizes == {NoText, Present(<<>>), Present(<<"5">>)}
UpstreamStatuses == {200, 400, 503}
UpstreamBodies ==
    {<<"{", "}">>,
     <<"{", Quote, "r", Quote, ":", " ", "[", "1", "]", "}">>,
     <<"<", "h", "t", "m", "l", ">">>}
FetchFailures == {ErrorValue(<<"fetch", "failed">>), ErrorValue(<<"getaddrinfo", "ENOTFOUND">>)}

InitSearch ==
    /\ sReq \in [body : SearchBodies, size : SearchSizes]
    /\ spc = "ready"
    /\ sCall = NoSearchCall
    /\ sUp = NoUpstream
    /\ sResp = NoSearchResponse
    /\ ExtractIdle
    /\ PdfIdle
    /\ IdleExcept("search")

\* lines 5-17: the body is read and the upstream request is made
SearchReadBody ==
    /\ spc = "ready"
    /\ LET body == JSONParse(sReq.body) IN
       IF ~body.ok
       THEN /\ sUp' = [NoUpstream EXCEPT !.thrown = BodySyntaxError]
            /\ sResp' = SearchCatch(BodySyntaxError)
            /\ spc' = "done"
            /\ UNCHANGED sCall
       ELSE /\ sCall' = [made |-> TRUE, size |-> SizeParam(sReq.size),
                         body |-> Stringify(body.val)]
            /\ spc' = "fetching"
            /\ UNCHANGED <<sUp, sResp>>
    /\ UNCHANGED <<sReq, xvars, pvars>>
    /\ KeepExcept("search")

\* lines 10-20: the upstream answers; its body is read as JSON
SearchUpstreamAnswers ==
    /\ spc = "fetching"
    /\ \E status \in UpstreamStatuses, body \in UpstreamBodies :
          LET data == JSONParse(body) IN
          IF data.ok
          THEN /\ sUp' = [kind |-> "answered", status |-> status, body |-> body,
                          thrown |-> NoThrown]
               /\ sResp' = SearchJson(data.val, status)
          ELSE /\ sUp' = [kind |-> "answered", status |-> status, body |-> body,
                          thrown |-> BodySyntaxError]
               /\ sResp' = SearchCatch(BodySyntaxError)
    /\ spc' = "done"
    /\ UNCHANGED <<sReq, sCall, xvars, pvars>>
    /\ KeepExcept("search")

\* lines 10 and 21-26: fetch rejects
SearchFetchRejects ==
    /\ spc = "fetching"
    /\ \E thrown \in FetchFailures :
          /\ sUp' = [kind |-> "rejected", status |-> 0, body |-> <<>>, thrown |-> thrown]
          /\ sResp' = SearchCatch(thrown)
    /\ spc' = "done"
    /\ UNCHANGED <<sReq, sCall, xvars, pvars>>
    /\ KeepExcept("search")

NextSearch == SearchReadBody \/ SearchUpstreamAnswers \/ SearchFetchRejects

SpecSearch == InitSearch /\ [][NextSearch]_vars

\* C14: the body sent upstream is the request's body (the same JSON value), with
\* the request's size parameter, 10 when there is none; the answer carries the
\* upstream's JSON body and status; when the forwarding throws, the answer is 500
\* with the error's message
C14_SearchProxyForwards ==
    /\ sCall.made =>
          /\ JSONParse(sReq.body).ok /\ JSONParse(sCall.body).ok
          /\ JSONParse(sCall.body).val = JSONParse(sReq.body).val
          /\ sCall.size = (IF sReq.size.has /\ sReq.size.chars # <<>>
                           THEN sReq.size.chars ELSE <<"1", "0">>)
    /\ (spc = "done" /\ sUp.kind = "answered" /\ JSONParse(sUp.body).ok) =>
          /\ sResp.status = sUp.status
          /\ sResp.hasData
          /\ JSONParse(sResp.data).val = JSONParse(sUp.body).val
    /\ (spc = "done" /\ sUp.kind = "rejected") =>
          /\ sResp.status = 500
          /\ sResp.error = sUp.thrown.message
          /\ ~sResp.hasData

C14_Witness ==
    /\ spc = "done"
    /\ sReq.size = NoText
    /\ sCall.size = <<"1", "0">>
    /\ sReq.body # sCall.body
    /\ sUp.kind = "answered"
    /\ sUp.status = 503
    /\ sResp.status = 503
    /\ sResp.hasData

(***************************************************************************)
(* TorreApiClient (src/lib/torre-api.ts lines 307-412): every method makes *)
(* one fetch, throws when the answer is not ok, and returns its JSON.      *)
(***************************************************************************)

MaxCalls == 3

Methods == {"searchOpportunities", "getJobDetails", "getGenome"}

DoubleFetchCall(method) == [method |-> method, reqs |-> 1 + 1, st |-> "pending"]

\* the call up to its await fetch(...): one request is out
NewCall(method) == [method |-> method, reqs |-> 1, st |-> "pending"]

InitClient ==
    /\ cpc = "ready"
    /\ calls = <<>>
    /\ ExtractIdle
    /\ PdfIdle
    /\ IdleExcept("client")

\* a method is called: lines 317-365, 384-388, 400-404
ClientCall ==
    /\ cpc = "ready"
    /\ Len(calls) < MaxCalls
    /\ \E m \in Methods : calls' = Append(calls, NewCall(m))
    /\ UNCHANGED <<cpc, xvars, pvars>>
    /\ KeepExcept("client")

\* the answer is ok: return response.json()
ClientReturns ==
    /\ cpc = "ready"
    /\ \E i \in 1..Len(calls) :
          /\ calls[i].st = "pending"
          /\ calls' = [calls EXCEPT ![i].st = "returned"]
    /\ UNCHANGED <<cpc, xvars, pvars>>
    /\ KeepExcept("client")

\* fetch rejects, the answer is not ok (throw new Error(...)), or its body is not JSON
ClientThrows ==
    /\ cpc = "ready"
    /\ \E i \in 1..Len(calls) :
          /\ calls[i].st = "pending"
          /\ calls' = [calls EXCEPT ![i].st = "threw"]
    /\ UNCHANGED <<cpc, xvars, pvars>>
    /\ KeepExcept("client")

NextClient == ClientCall \/ ClientReturns \/ ClientThrows

SpecClient == InitClient /\ [][NextClient]_vars

(***************************************************************************)
(* FitAnalysisDialog (page.tsx lines 1472-2043) inside JobDetailsPage,     *)
(* which keeps it mounted and only switches isOpen.  Every handleAnalyze   *)
(* call is a run; a run goes on after the dialog is closed.                *)
(*   st       "genome" (awaiting getGenome), "ai" (awaiting /api/ai),      *)
(*            "done", "failed"                                             *)
(*   user     username.trim() when the run started                         *)
(*   pre      genome and analysis when the run started, kept while the run *)
(*            is in flight                                                 *)
(*   overlapped  another run was in flight when this one started           *)
(***************************************************************************)

MaxRuns == 2

JNull == JLit("null")

RECURSIVE DropTrailingSpaces(_)
DropTrailingSpaces(s) ==
    IF s # <<>> /\ s[Len(s)] \in RegexSpace
    THEN DropTrailingSpaces(SubSeq(s, 1, Len(s) - 1))
    ELSE s

\* s.trim()
Trim(s) == DropTrailingSpaces(DropSpaces(s))

\* the truth value of a JSON value in a condition
Truthy(v) ==
    \/ v.t \in {"obj", "arr", "true"}
    \/ v.t = "num" /\ v.n # 0
    \/ v.t = "str" /\ v.s # <<>>

\* what /api/genome answers for a username
GenomeOf(user) == [has |-> TRUE, user |-> user]

ErrorOf(message) == [has |-> TRUE, message |-> message]

Usernames == {<<>>, <<" ">>, <<" ", "u">>, <<"v">>}
GenomeFailures == {"Failed to fetch genome: Not Found"}
AiFailures == {"AI analysis failed", "Prompt is required"}
AiTexts ==
    {<<"{", Quote, "a", Quote, ":", "1", "}">>,
     <<"x", "{", Quote, "a", Quote, ":", Quote, "b", Quote, "}">>,
     <<"n", "u", "l", "l">>,
     <<"{", "1", "}">>,
     <<"s", "o", "r", "r", "y">>}

InFlight == \E i \in 1..Len(runs) : runs[i].st \in {"genome", "ai"}

GuardedCanAnalyze == isOpen /\ step = "input" /\ Trim(username) # <<>> /\ ~InFlight

\* handleAnalyze can be called (the input view is rendered, line 1573) and goes
\* past its first line (line 1480)
CanAnalyze == isOpen /\ step = "input" /\ Trim(username) # <<>>

NewRun ==
    [st |-> "genome", user |-> Trim(username),
     profileReqs |-> NewCall("getGenome").reqs, aiReqs |-> 0, parses |-> 0,
     genomeOk |-> FALSE, aiOk |-> FALSE, failedAt |-> "none",
     pre |-> [genome |-> genome, analysis |-> analysis],
     overlapped |-> InFlight]

NoPre == [genome |-> NoGenome, analysis |-> JNull]

ContinueAfterGenomeFailure(run) == [run EXCEPT !.st = "ai", !.aiReqs = @ + 1]

\* getGenome throws: the catch block is entered, nothing else of the try runs
OnGenomeFailure(run) ==
    [run EXCEPT !.st = "failed", !.failedAt = "genome", !.pre = NoPre]

StaleGenomeReset ==
    [username |-> <<>>, step |-> "input", genome |-> genome, analysis |-> JNull]

StuckLoading == "loading"

\* the catch block's setStep("input"), line 1516
FailureStep == "input"

\* setStep("input"); setUsername(""); setGenome(null); setAnalysis(null)
InputReset ==
    [username |-> <<>>, step |-> "input", genome |-> NoGenome, analysis |-> JNull]

InitDialog ==
    /\ isOpen = FALSE
    /\ username = <<>>
    /\ step = "input"
    /\ genome = NoGenome
    /\ analysis = JNull
    /\ error = NoError
    /\ runs = <<>>
    /\ last = NoRun
    /\ ExtractIdle
    /\ PdfIdle
    /\ IdleExcept("dialog")

DialogRest == UNCHANGED <<xvars, pvars>> /\ KeepExcept("dialog")

\* JobDetailsPage: setIsDialogOpen(true), line 2360
OpenDialog ==
    /\ step # "idle"
    /\ ~isOpen
    /\ isOpen' = TRUE
    /\ last' = [op |-> "open", run |-> 0]
    /\ UNCHANGED <<username, step, genome, analysis, error, runs>>
    /\ DialogRest

\* the username input's onChange, line 1596
SetUsername ==
    /\ isOpen
    /\ step = "input"
    /\ \E u \in Usernames \ {username} : username' = u
    /\ last' = [op |-> "type", run |-> 0]
    /\ UNCHANGED <<isOpen, step, genome, analysis, error, runs>>
    /\ DialogRest

\* handleAnalyze up to its first await, lines 1479-1485
HandleAnalyze ==
    /\ CanAnalyze
    /\ Len(runs) < MaxRuns
    /\ step' = "loading"
    /\ error' = NoError
    /\ runs' = Append(runs, NewRun)
    /\ last' = [op |-> "analyze", run |-> Len(runs) + 1]
    /\ UNCHANGED <<isOpen, username, genome, analysis>>
    /\ DialogRest

\* getGenome resolves: lines 1485-1500, up to the await of fetch("/api/ai")
GenomeResolves ==
    /\ \E r \in 1..Len(runs) :
          /\ runs[r].st = "genome"
          /\ genome' = GenomeOf(runs[r].user)
          /\ runs' = [runs EXCEPT ![r] =
                         [@ EXCEPT !.st = "ai", !.genomeOk = TRUE, !.aiReqs = @ + 1]]
          /\ last' = [op |-> "genome", run |-> r]
    /\ UNCHANGED <<isOpen, username, step, analysis, error>>
    /\ DialogRest

\* getGenome rejects: lines 1485 and 1514-1517
GenomeFails ==
    /\ \E r \in 1..Len(runs), message \in GenomeFailures :
          /\ runs[r].st = "genome"
          /\ error' = ErrorOf(message)
          /\ runs' = [runs EXCEPT ![r] = OnGenomeFailure(@)]
          /\ last' = [op |-> "failed", run |-> r]
    /\ step' = FailureStep
    /\ UNCHANGED <<isOpen, username, genome, analysis>>
    /\ DialogRest

\* fetch("/api/ai") rejects or answers non-2xx: lines 1493-1506 and 1514-1517
AiFails ==
    /\ \E r \in 1..Len(runs), message \in AiFailures :
          /\ runs[r].st = "ai"
          /\ error' = ErrorOf(message)
          /\ runs' = [runs EXCEPT ![r] = [@ EXCEPT !.st = "failed", !.failedAt = "ai", !.pre = NoPre]]
          /\ last' = [op |-> "failed", run |-> r]
    /\ step' = FailureStep
    /\ UNCHANGED <<isOpen, username, genome, analysis>>
    /\ DialogRest

\* /api/ai answers 2xx: lines 1508-1513, or 1511 and 1514-1517 when
\* parseAIResponse throws
AiResolves ==
    /\ \E r \in 1..Len(runs), t \in AiTexts :
          /\ runs[r].st = "ai"
          /\ LET o == ParseAIResponse(t) IN
             IF o.kind = "return"
             THEN /\ analysis' = o.val
                  /\ step' = "result"
                  /\ runs' = [runs EXCEPT ![r] =
                                 [@ EXCEPT !.st = "done", !.aiOk = TRUE,
                                           !.parses = @ + 1, !.pre = NoPre]]
                  /\ last' = [op |-> "done", run |-> r]
                  /\ UNCHANGED error
             ELSE /\ error' = ErrorOf(o.message)
                  /\ step' = FailureStep
                  /\ runs' = [runs EXCEPT ![r] =
                                 [@ EXCEPT !.st = "failed", !.aiOk = TRUE,
                                           !.parses = @ + 1, !.failedAt = "parse",
                                           !.pre = NoPre]]
                  /\ last' = [op |-> "failed", run |-> r]
                  /\ UNCHANGED analysis
    /\ UNCHANGED <<isOpen, username, genome>>
    /\ DialogRest

\* lines 1520-1527; onClose is setIsDialogOpen(false), line 2512
HandleClose ==
    /\ isOpen
    /\ username' = InputReset.username
    /\ step' = InputReset.step
    /\ genome' = InputReset.genome
    /\ analysis' = InputReset.analysis
    /\ error' = NoError
    /\ isOpen' = FALSE
    /\ last' = [op |-> "close", run |-> 0]
    /\ UNCHANGED runs
    /\ DialogRest

\* 'Analyze Another Candidate', lines 2025-2031, rendered in the result view
\* (line 1664)
AnalyzeAnother ==
    /\ isOpen
    /\ step = "result" /\ Truthy(analysis) /\ genome.has
    /\ step' = InputReset.step
    /\ username' = InputReset.username
    /\ genome' = InputReset.genome
    /\ analysis' = InputReset.analysis
    /\ last' = [op |-> "another", run |-> 0]
    /\ UNCHANGED <<isOpen, error, runs>>
    /\ DialogRest

NextDialog ==
    \/ OpenDialog \/ SetUsername \/ HandleAnalyze
    \/ GenomeResolves \/ GenomeFails \/ AiFails \/ AiResolves
    \/ HandleClose \/ AnalyzeAnother

SpecDialog == InitDialog /\ [][NextDialog]_vars

\* every call that handleAnalyze awaits settles at some time: getGenome resolves
\* or rejects, and so does the request to /api/ai
SpecDialogFair ==
    /\ SpecDialog
    /\ WF_vars(GenomeResolves \/ GenomeFails)
    /\ WF_vars(AiResolves \/ AiFails)

\* the dialog and the client, side by side
SpecRequests == (InitDialog \/ InitClient) /\ [][NextDialog \/ NextClient]_vars

(***************************************************************************)
(* Claims about FitAnalysisDialog and TorreApiClient.                      *)
(***************************************************************************)

\* C15: after every failure of handleAnalyze the dialog is in its pre-action
\* input state: step is 'input', genome and analysis have the values they had
\* when the action was triggered, and the error message is set
C15_FailureRestoresPreActionState ==
    [][\A r \in 1..Len(runs) :
          (runs[r].st \in {"genome", "ai"} /\ runs'[r].st = "failed") =>
              /\ step' = "input"
              /\ genome' = runs[r].pre.genome
              /\ analysis' = runs[r].pre.analysis
              /\ error'.has]_vars

\* C16: in every run the /api/ai request is made only after the profile fetch
\* succeeded and the AI text is parsed only after /api/ai answered 2xx; a run
\* that failed at a step started no later step
C16_StepsInStrictSequence ==
    \A r \in 1..Len(runs) :
        /\ runs[r].aiReqs >= 1 => runs[r].genomeOk
        /\ runs[r].parses >= 1 => runs[r].aiOk /\ runs[r].aiReqs >= 1
        /\ runs[r].st = "genome" => runs[r].aiReqs = 0 /\ runs[r].parses = 0
        /\ runs[r].st = "ai" => runs[r].parses = 0
        /\ runs[r].failedAt = "genome" => runs[r].aiReqs = 0 /\ runs[r].parses = 0
        /\ runs[r].failedAt = "ai" => runs[r].parses = 0
        /\ runs[r].st = "done" =>
               runs[r].genomeOk /\ runs[r].aiOk /\ runs[r].parses = 1

C16_Witness ==
    /\ Len(runs) = 2
    /\ runs[1].st = "done" /\ runs[1].parses = 1
    /\ runs[2].failedAt = "genome" /\ runs[2].aiReqs = 0

\* C17: nothing is retried: a run of handleAnalyze makes at most one profile
\* request and at most one /api/ai request, and every call of a TorreApiClient
\* method makes exactly one HTTP request, whatever its outcome
C17_NothingRetried ==
    /\ \A r \in 1..Len(runs) :
          /\ runs[r].profileReqs <= 1
          /\ runs[r].aiReqs <= 1
    /\ \A i \in 1..Len(calls) : calls[i].reqs = 1

C17_Witness ==
    /\ cpc = "ready"
    /\ Len(calls) = 3
    /\ {calls[i].method : i \in 1..3} = Methods
    /\ {calls[i].st : i \in 1..3} = {"returned", "threw"}

\* C18: right after handleClose and right after 'Analyze Another Candidate',
\* analysis and genome are null, username is empty and step is 'input';
\* handleClose also clears the error and closes the dialog
C18_ResetAfterCloseAndAnother ==
    last.op \in {"close", "another"} =>
        /\ analysis = JLit("null")
        /\ genome = NoGenome
        /\ username = <<>>
        /\ step = "input"
        /\ last.op = "close" => (error = NoError /\ ~isOpen)

C18_Witness ==
    /\ last.op = "another"
    /\ error.has
    /\ \E r \in 1..Len(runs) : runs[r].st = "done"

\* C19: handleAnalyze is not guarded against a run in flight: whenever the input
\* view is open with a username, it can be started, also while an earlier run
\* has not finished
C19_AnalyzeNotGuarded ==
    (InFlight /\ isOpen /\ step = "input" /\ Trim(username) # <<>>
       /\ Len(runs) < MaxRuns) => ENABLED HandleAnalyze

\* the first run's answer was applied after the second run's and replaced the
\* second run's analysis and genome
C19_Witness ==
    /\ Len(runs) = 2
    /\ runs[2].overlapped
    /\ runs[1].st = "done" /\ runs[2].st = "done"
    /\ last = [op |-> "done", run |-> 1]
    /\ runs[1].user # runs[2].user
    /\ isOpen /\ step = "result"
    /\ genome = GenomeOf(runs[1].user)
    /\ Truthy(analysis)

(***************************************************************************)
(* Further claims about parseAIResponse, checked under SpecExtract.        *)
(***************************************************************************)

\* C21: a value parseAIResponse returns through its direct-parse step is an
\* object: text that is valid JSON but a number, a string, a boolean or null
\* is never returned
C21_DirectParseReturnsObjectsOnly ==
    (xpc = "done" /\ outcome.kind = "return" /\ outcome.via = "direct")
        => outcome.val.t \notin {"num", "str", "true", "false", "null"}

\* the span from the first "{" to the last "}" after it, <<>> when there is none
MaximalSpan(s) ==
    LET opens == {i \in 1..Len(s) : s[i] = "{"} IN
    IF opens = {} THEN <<>>
    ELSE LET a == CHOOSE i \in opens : \A j \in opens : i <= j
             closes == {i \in (a + 1)..Len(s) : s[i] = "}"} IN
         IF closes = {} THEN <<>>
         ELSE SubSeq(s, a, CHOOSE i \in closes : \A j \in closes : j <= i)

\* C22: when the direct parse fails, the only candidate tried is the span from
\* the first "{" to the last "}": the call returns exactly when that span
\* parses, with its value; when it does not parse the call throws, also when a
\* narrower span (the first object of the text) would parse
C22_OnlyMaximalSpanTried ==
    (xpc = "done" /\ ~JSONParse(text).ok) =>
        IF MaximalSpan(text) # <<>> /\ JSONParse(MaximalSpan(text)).ok
        THEN outcome = Return(JSONParse(MaximalSpan(text)).val, "span")
        ELSE outcome.kind = "throw"

C22_Witness ==
    /\ xpc = "done"
    /\ text = <<"{", "}", "{", "}">>
    /\ JSONParse(<<"{", "}">>).ok
    /\ outcome.kind = "throw"


(***************************************************************************)
(* Further claims about generateAnalysisPDF.                               *)
(***************************************************************************)
\* the key/value blocks of the step just taken; addKeyValue is the last call of
\* its step, so the cursor y is the one it left
KeyValuesDrawn == {i \in 1..Len(drawn) : drawn[i].kind = "kv"}

\* C23 (as claimed): a key/value pair moves the cursor down by exactly
\* max(label lines, value lines) * 5, the line height.
C23_AdvanceIsLinesTimesLineHeight ==
    \A i \in KeyValuesDrawn :
        y - drawn[i].y = Max(drawn[i].labelLines, drawn[i].valueLines) * LineHeight

\* C23 (amended): a key/value pair moves the cursor down by
\* max(label lines, value lines) * 5 plus the fixed gap of 3 (line 1271).
C23_AdvanceIsLinesTimesLineHeightPlusGap ==
    \A i \in KeyValuesDrawn :
        /\ i = Len(drawn)
        /\ y - drawn[i].y
             = Max(drawn[i].labelLines, drawn[i].valueLines) * LineHeight + 3

C23_Witness ==
    /\ pc = "locRemote"
    /\ Len(drawn) = 1 /\ drawn[1].kind = "kv"
    /\ drawn[1].labelLines = 1 /\ drawn[1].valueLines > 1


\* the positions of the content pass (lines 1274-1442)
ContentPass == {Order[i] : i \in 1..(Rank("footer") - 1)}

\* the blocks of a step that were drawn after a call of addNewPageIfNeeded, and
\* how many of those calls added a page
Checked(blocks) == {i \in 1..Len(blocks) : blocks[i].checked}
PagesAdded(blocks) == Cardinality({i \in Checked(blocks) : blocks[i].fresh})

\* C30: in every step, each addNewPageIfNeeded(h) adds a page and puts the cursor
\* at the margin exactly when cursor + h > pageHeight - margin, and otherwise moves
\* nothing; the step adds exactly one page per such call, so the page count never
\* decreases; and the cursor never moves up except at a page break.
C30_PagesAndCursorConsistent ==
    [][/\ \A i \in Checked(drawn') :
            LET b == drawn'[i] IN
            /\ b.fresh <=> (b.from + b.need > PageHeight - Margin)
            /\ b.y = (IF b.fresh THEN Margin ELSE b.from)
            /\ b.page = (IF i = 1 THEN curPage ELSE drawn'[i - 1].page)
                          + (IF b.fresh THEN 1 ELSE 0)
       /\ pc \in ContentPass => pagesLen' = pagesLen + PagesAdded(drawn')
       /\ pagesLen' >= pagesLen
       /\ breaks' = breaks => y' >= y
       /\ \A i \in 1..Len(drawn') :
            /\ drawn'[i].from >= (IF i = 1 THEN y ELSE drawn'[i - 1].y)
            /\ ~drawn'[i].fresh => drawn'[i].y >= drawn'[i].from
            /\ i = Len(drawn') => y' >= drawn'[i].y]_vars

\* a list that crosses a page: one item drawn where the cursor was, the next one on
\* a page added for it
C30_Witness ==
    /\ Len(drawn) >= 3
    /\ \E i \in Checked(drawn) : ~drawn[i].fresh /\ drawn[i].kind = "bullet"
    /\ \E i \in Checked(drawn) : drawn[i].fresh /\ drawn[i].kind = "bullet"
    /\ \E i \in Checked(drawn) : drawn[i].from + drawn[i].need = PageHeight - Margin


\* the positions at which the fields of a titled section are drawn
FieldPositions(sec) ==
    CASE sec = "career" -> {"careerSummary", "careerGrowth", "careerAlign"}
      [] sec = "location" -> {"locCompat", "locRemote", "locCommit", "locConcerns"}
      [] sec = "cred" -> {"credQuality", "credPresence", "credIndicators"}
      [] OTHER -> {}

\* C29: no section is left empty: once the function is past the fields of a
\* section whose title it drew, a paragraph, bullet item or key/value pair of that
\* section was drawn under the title.
C29_NoEmptySection == titled # "" => pc \in FieldPositions(titled)


(***************************************************************************)
(* Further claims about FitAnalysisDialog.                                 *)
(***************************************************************************)
\* the latest step is the settling of a call awaited by handleAnalyze that ended
\* its run: the run finished, or it failed
Settled(l) == l.op \in {"done", "failed"}

\* C24 (as claimed): step leaves 'loading' only when the awaited calls settle; as
\* long as they do not, step stays 'loading'.
C24_LoadingEndsOnlyBySettling ==
    [][(step = "loading" /\ step' # "loading") => Settled(last')]_vars

\* C24 (amended): step leaves 'loading' only when an awaited call settles or the
\* dialog is closed; a run that finishes puts step at 'result', a run that fails
\* puts it at 'input' with an error; and when every call settles at some time,
\* 'loading' is always left.
C24_LoadingEndsBySettlingOrClose ==
    /\ [][/\ (step = "loading" /\ step' # "loading")
               => (Settled(last') \/ last'.op = "close")
          /\ (last' # last /\ last'.op = "done") => step' = "result"
          /\ (last' # last /\ last'.op = "failed") => (step' = "input" /\ error'.has)
          /\ (last' # last /\ last'.op = "close") => (step' = "input" /\ ~error'.has)
         ]_vars
    /\ (step = "loading") ~> (step # "loading")

\* a run fails while the dialog shows 'loading', and a run that was closed over
\* settles later
C24_Witness ==
    /\ Len(runs) = 2
    /\ runs[1].st = "done" /\ runs[2].st = "failed"
    /\ last = [op |-> "done", run |-> 1]
    /\ step = "result"

\* C25: whenever step is 'result', analysis and genome are both non-null.
C25_ResultHasAnalysisAndGenome ==
    step = "result" => (analysis # JNull /\ genome.has)

\* C26: while the dialog is closed, nothing changes step, genome, analysis or
\* error: the calls of an analysis that was in flight at the close settle without
\* an effect on them.
C26_ClosedDialogStaysReset ==
    [][(~isOpen /\ ~isOpen') => UNCHANGED <<step, genome, analysis, error>>]_vars


(***************************************************************************)
(* JobsPage (the jobs list page).  searchJobs is an async callback of      *)
(* searchTerm and size; an effect calls it after the first render and      *)
(* after every render in which it changed.                                 *)
(***************************************************************************)
MaxSearches == 3     \* most searchJobs calls of one behaviour

Terms == {"Designer", "Engineer"}
\* the options of the size select
Sizes == {6, 12, 24, 48}
JobsFailures == {"Failed to search opportunities: Service Unavailable"}

\* what the upstream finds for a query: its jobs (one stands for them) and their
\* number
ResultsOf(term, n) == <<[keyword |-> term, size |-> n]>>
TotalOf(term) == IF term = "Designer" THEN 2 ELSE 1

\* the bodies searchOpportunities can resolve with for a query: the results and
\* the total, each of which may be missing
Answers(term, n) ==
    {[hasResults |-> hr, results |-> IF hr THEN ResultsOf(term, n) ELSE <<>>,
      hasTotal |-> ht, total |-> IF ht THEN TotalOf(term) ELSE 0] :
        hr \in BOOLEAN, ht \in BOOLEAN}

NoAnswer == [hasResults |-> FALSE, results |-> <<>>, hasTotal |-> FALSE, total |-> 0]

Pending == {i \in 1..Len(searches) : searches[i].st = "pending"}

InitJobs ==
    /\ jpc = "mount"
    /\ searchTerm = "Designer"
    /\ results = <<>>
    /\ total = 0
    /\ loading = FALSE
    /\ jobsError = NoError
    /\ size = 12
    /\ searches = <<>>
    /\ ExtractIdle
    /\ PdfIdle
    /\ IdleExcept("jobs")

JobsRest == UNCHANGED <<xvars, pvars>> /\ KeepExcept("jobs")

\* searchJobs up to its await, for the keyword and size of the render it belongs
\* to: setLoading(true); setError(null); searchOpportunities(...)
SearchJobs(term, n) ==
    /\ Len(searches) < MaxSearches
    /\ loading' = TRUE
    /\ jobsError' = NoError
    /\ searches' = Append(searches, [term |-> term, size |-> n, st |-> "pending",
                                     got |-> NoAnswer])
    /\ UNCHANGED <<results, total>>
    /\ JobsRest

\* the effect after the first render
MountEffect ==
    /\ jpc = "mount"
    /\ jpc' = "ready"
    /\ SearchJobs(searchTerm, size)
    /\ UNCHANGED <<searchTerm, size>>

\* the input's onChange: setSearchTerm, a new searchJobs, and the effect calls it
ChangeSearchTerm ==
    /\ jpc = "ready"
    /\ \E t \in Terms \ {searchTerm} :
          /\ searchTerm' = t
          /\ SearchJobs(t, size)
    /\ UNCHANGED <<jpc, size>>

\* the select's onChange: setSize, a new searchJobs, and the effect calls it
ChangeSize ==
    /\ jpc = "ready"
    /\ \E n \in Sizes \ {size} :
          /\ size' = n
          /\ SearchJobs(searchTerm, n)
    /\ UNCHANGED <<jpc, searchTerm>>

\* the input's onKeyDown with Enter: searchJobs(), whatever loading is
PressEnter ==
    /\ jpc = "ready"
    /\ SearchJobs(searchTerm, size)
    /\ UNCHANGED <<jpc, searchTerm, size>>

\* the button's onClick; the button is disabled while loading
ClickSearch ==
    /\ jpc = "ready"
    /\ ~loading
    /\ SearchJobs(searchTerm, size)
    /\ UNCHANGED <<jpc, searchTerm, size>>

\* searchOpportunities resolves: setResults(data.results || []);
\* setTotal(data.total || 0); finally setLoading(false)
SearchResolves ==
    /\ \E i \in Pending :
        \E answer \in Answers(searches[i].term, searches[i].size) :
          /\ results' = (IF answer.hasResults THEN answer.results ELSE <<>>)
          /\ total' = (IF answer.hasTotal /\ answer.total # 0 THEN answer.total ELSE 0)
          /\ searches' = [searches EXCEPT ![i] = [@ EXCEPT !.st = "done", !.got = answer]]
    /\ loading' = FALSE
    /\ UNCHANGED <<jpc, searchTerm, size, jobsError>>
    /\ JobsRest

\* searchOpportunities rejects: setError(message); finally setLoading(false)
SearchRejects ==
    /\ \E i \in Pending, message \in JobsFailures :
          /\ jobsError' = ErrorOf(message)
          /\ searches' = [searches EXCEPT ![i] = [@ EXCEPT !.st = "failed"]]
    /\ loading' = FALSE
    /\ UNCHANGED <<jpc, searchTerm, size, results, total>>
    /\ JobsRest

NextJobs ==
    \/ MountEffect \/ ChangeSearchTerm \/ ChangeSize \/ PressEnter \/ ClickSearch
    \/ SearchResolves \/ SearchRejects

SpecJobs == InitJobs /\ [][NextJobs]_vars

\* the most recently started search
Latest == searches[Len(searches)]

\* C27: once every search has settled, the results and the total shown are those
\* that the most recently started search resolved with; and loading is true
\* exactly while a search is in flight.
C27_LatestSearchShown ==
    jpc = "ready" =>
        /\ (Pending = {} /\ Latest.st = "done")
              => /\ results = Latest.got.results
                 /\ total = Latest.got.total
        /\ loading <=> (Pending # {})


(***************************************************************************)
(* Home, the API tester page (src/app/page.tsx).  Each of its three panels *)
(* has a response state {data, status, loading, error}, a handler that     *)
(* awaits one method of the Torre client, and a button that is disabled    *)
(* while the panel is loading.  The input fields only feed the arguments   *)
(* of the calls and are left out.                                          *)
(***************************************************************************)
\* what a method of the client can resolve with: a JSON value, null included
ApiData == {JObj(<<JMember(<<"a">>, JNum(1))>>), JArr(<<>>), JNull}
\* err.message, or "Unknown error" for a thrown value that is no Error
HomeFailures == {"Failed to fetch genome: Not Found", "Unknown error"}

StaleLoadingResponse(prev) == [prev EXCEPT !.loading = TRUE]

\* { data: null, status: 0, loading: true, error: null }, set over the response prev
LoadingResponse(prev) ==
    [data |-> JNull, status |-> 0, loading |-> TRUE, error |-> NoError]

\* { data, status: 200, loading: false, error: null }
DataResponse(data) ==
    [data |-> data, status |-> 200, loading |-> FALSE, error |-> NoError]

\* { data: null, status: 0, loading: false, error: message }
ErrorResponse(message) ==
    [data |-> JNull, status |-> 0, loading |-> FALSE, error |-> ErrorOf(message)]

InitHome ==
    /\ hpc = "ready"
    /\ searchResponse = NoApiResponse
    /\ jobResponse = NoApiResponse
    /\ genomeResponse = NoApiResponse
    /\ inFlight = {}
    /\ acted = "none"
    /\ ExtractIdle
    /\ PdfIdle
    /\ IdleExcept("home")

HomeRest == UNCHANGED <<hpc, xvars, pvars>> /\ KeepExcept("home")

\* searchOpportunities up to its await (the button of the panel is disabled while loading)
SearchOpportunities ==
    /\ hpc = "ready"
    /\ ~searchResponse.loading
    /\ searchResponse' = LoadingResponse(searchResponse)
    /\ inFlight' = inFlight \cup {"search"}
    /\ acted' = "search"
    /\ UNCHANGED <<jobResponse, genomeResponse>>
    /\ HomeRest

\* the awaited call of searchOpportunities resolves
SearchOpportunitiesResolves ==
    /\ "search" \in inFlight
    /\ \E data \in ApiData : searchResponse' = DataResponse(data)
    /\ inFlight' = inFlight \ {"search"}
    /\ acted' = "search"
    /\ UNCHANGED <<jobResponse, genomeResponse>>
    /\ HomeRest

\* the awaited call of searchOpportunities rejects
SearchOpportunitiesRejects ==
    /\ "search" \in inFlight
    /\ \E message \in HomeFailures : searchResponse' = ErrorResponse(message)
    /\ inFlight' = inFlight \ {"search"}
    /\ acted' = "search"
    /\ UNCHANGED <<jobResponse, genomeResponse>>
    /\ HomeRest

\* getJobDetails up to its await (the button of the panel is disabled while loading)
GetJobDetails ==
    /\ hpc = "ready"
    /\ ~jobResponse.loading
    /\ jobResponse' = LoadingResponse(jobResponse)
    /\ inFlight' = inFlight \cup {"job"}
    /\ acted' = "job"
    /\ UNCHANGED <<searchResponse, genomeResponse>>
    /\ HomeRest

\* the awaited call of getJobDetails resolves
GetJobDetailsResolves ==
    /\ "job" \in inFlight
    /\ \E data \in ApiData : jobResponse' = DataResponse(data)
    /\ inFlight' = inFlight \ {"job"}
    /\ acted' = "job"
    /\ UNCHANGED <<searchResponse, genomeResponse>>
    /\ HomeRest

\* the awaited call of getJobDetails rejects
GetJobDetailsRejects ==
    /\ "job" \in inFlight
    /\ \E message \in HomeFailures : jobResponse' = ErrorResponse(message)
    /\ inFlight' = inFlight \ {"job"}
    /\ acted' = "job"
    /\ UNCHANGED <<searchResponse, genomeResponse>>
    /\ HomeRest

\* getGenome up to its await (the button of the panel is disabled while loading)
GetGenome ==
    /\ hpc = "ready"
    /\ ~genomeResponse.loading
    /\ genomeResponse' = LoadingResponse(genomeResponse)
    /\ inFlight' = inFlight \cup {"genome"}
    /\ acted' = "genome"
    /\ UNCHANGED <<searchResponse, jobResponse>>
    /\ HomeRest

\* the awaited call of getGenome resolves
GetGenomeResolves ==
    /\ "genome" \in inFlight
    /\ \E data \in ApiData : genomeResponse' = DataResponse(data)
    /\ inFlight' = inFlight \ {"genome"}
    /\ acted' = "genome"
    /\ UNCHANGED <<searchResponse, jobResponse>>
    /\ HomeRest

\* the awaited call of getGenome rejects
GetGenomeRejects ==
    /\ "genome" \in inFlight
    /\ \E message \in HomeFailures : genomeResponse' = ErrorResponse(message)
    /\ inFlight' = inFlight \ {"genome"}
    /\ acted' = "genome"
    /\ UNCHANGED <<searchResponse, jobResponse>>
    /\ HomeRest

NextHome ==
    \/ SearchOpportunities \/ SearchOpportunitiesResolves \/ SearchOpportunitiesRejects
    \/ GetJobDetails \/ GetJobDetailsResolves \/ GetJobDetailsRejects
    \/ GetGenome \/ GetGenomeResolves \/ GetGenomeRejects

SpecHome == InitHome /\ [][NextHome]_vars

\* at most one of loading, error and data is set in the response r, and the status
\* goes with it
PanelConsistent(r) ==
    /\ r.loading => (r.data = JNull /\ ~r.error.has)
    /\ r.error.has => (r.data = JNull /\ r.status = 0 /\ ~r.loading)
    /\ r.data # JNull => (r.status = 200 /\ ~r.error.has /\ ~r.loading)

\* C28: in each of the three panels loading implies data = null and error = null,
\* an error implies data = null and status = 0, and data implies status = 200 and
\* error = null; and a step of one panel leaves the responses of the other two as
\* they were.
C28_PanelsConsistentAndIndependent ==
    /\ [](PanelConsistent(searchResponse) /\ PanelConsistent(jobResponse)
            /\ PanelConsistent(genomeResponse))
    /\ [][/\ acted' = "search" => UNCHANGED <<jobResponse, genomeResponse>>
          /\ acted' = "job" => UNCHANGED <<searchResponse, genomeResponse>>
          /\ acted' = "genome" => UNCHANGED <<searchResponse, jobResponse>>
          /\ acted' \in {"search", "job", "genome"}]_vars

\* the search panel shows data, the job panel an error, and the genome panel is
\* loading
C28_Witness ==
    /\ searchResponse.data # JNull /\ searchResponse.status = 200
    /\ jobResponse.error.has
    /\ genomeResponse.loading /\ "genome" \in inFlight
    /\ acted = "genome"

====
